---- MODULE Spec2Model ----
(***************************************************************************)
(* Model of the elitetracker API: the router (src/routes.ts), the          *)
(* focus-time controller (src/controllers/focus-time-controller.ts) and    *)
(* the auth controller (src/controllers/auth.controller.ts).               *)
(*                                                                         *)
(* Time is counted in ticks since the epoch (a JavaScript Date value).     *)
(* The calendar is scaled down: a day has DayLen ticks, a month            *)
(* DaysPerMonth days and a year MonthsPerYear months.  The first tick of   *)
(* a day stands for 00:00:00.000 and the last one for 23:59:59.999.        *)
(* The server's local time is UTC plus tz ticks; dayjs works in local      *)
(* time, the document store's date operators work in UTC.                  *)
(***************************************************************************)
EXTENDS Integers, Sequences, FiniteSets, Bags, TLC

VARIABLES
  tz,        \* the server's local offset from UTC, in ticks
  records,   \* the focus-time collection
  request,   \* the last request received
  handler,   \* the handler that began executing for it
  response,  \* the response it was given
  world,     \* what the provider and the session signer did for it
  calls,     \* the external calls the handler started, in order
  recordsB   \* per user u, the collection of the run in which only u stores

vars == <<tz, records, request, handler, response, world, calls, recordsB>>

\* ------------------------------------------------------------------ bounds
DayLen == 2
DaysPerMonth == 2
MonthsPerYear == 2
MaxTime == 7
MaxRecords == 2
MaxRoutesRecords == 1

Times == 0..MaxTime
TzOffsets == {-1, 0, 1}
Users == {"u1", "u2"}

\* ------------------------------------------------------- request inputs
\* A raw JSON/query value handed to z.coerce.date():
\*   iso  - a full timestamp string "....Z" naming instant v
\*   day  - a date-only string "YYYY-MM-DD" naming UTC day number v
\*   null - JSON null;  bad - a string that is no date;  missing - undefined
Raw(k, v) == [k |-> k, v |-> v]
Iso(t) == Raw("iso", t)
BadRaw == Raw("bad", 0)
MissingRaw == Raw("missing", 0)
NullRaw == Raw("null", 0)

\* new Date(input): the instant, or an Invalid Date (valid = FALSE).
\* A date-only string is UTC midnight of that day; null is the epoch.
NewDate(raw) ==
  CASE raw.k = "iso" -> [valid |-> TRUE, t |-> raw.v]
    [] raw.k = "day" -> [valid |-> TRUE, t |-> raw.v * DayLen]
    [] raw.k = "null" -> [valid |-> TRUE, t |-> 0]
    [] OTHER -> [valid |-> FALSE, t |-> 0]

\* schema.safeParse() of z.object({f: z.coerce.date(), ...}): an Invalid
\* Date is an issue; the issues come in the order of the schema's fields.
SafeParse(fields, input) ==
  LET bad(i) == ~NewDate(input[fields[i]]).valid
      issues == SelectSeq([i \in 1..Len(fields) |->
                             [field |-> fields[i], bad |-> bad(i)]],
                          LAMBDA x : x.bad)
  IN  [success |-> issues = <<>>,
       data |-> [f \in DOMAIN input |-> NewDate(input[f]).t],
       issues |-> issues]

\* ErrorMessageValidation(issues): one {field, message} entry per issue.
ErrorMessageValidation(issues) ==
  [i \in 1..Len(issues) |->
     [field |-> issues[i].field, message |-> "Invalid date"]]

\* ------------------------------------------------------------- calendar
\* dayjs(d).startOf("day") / endOf("day"), as instants (toDate()).
StartOfDay(d) == ((d + tz) \div DayLen) * DayLen - tz
\* (variant: the window runs up to the first instant of the next day)
EndOfDayNextMidnight(d) == StartOfDay(d) + DayLen
EndOfDay(d) == StartOfDay(d) + DayLen - 1

MonthLen == DayLen * DaysPerMonth
\* dayjs(d).startOf("month") / endOf("month"), as instants.
StartOfMonth(d) == ((d + tz) \div MonthLen) * MonthLen - tz
EndOfMonth(d) == StartOfMonth(d) + MonthLen - 1

\* (variant: "before or at the same instant")
IsBeforeOrSame(a, b) == a <= b
\* dayjs: a.isBefore(b) compares the two instants.
IsBefore(a, b) == a < b

\* The aggregation's $year, $month, $dayOfMonth: calendar fields in UTC.
YearOf(t) == 1970 + (t \div (MonthLen * MonthsPerYear))
MonthOf(t) == ((t \div MonthLen) % MonthsPerYear) + 1
DayOfMonth(t) == ((t \div DayLen) % DaysPerMonth) + 1
DayKey(t) == <<YearOf(t), MonthOf(t), DayOfMonth(t)>>

\* ---------------------------------------------------------- record store
\* The focus-time collection is a bag of documents {timeFrom, timeTo,
\* userId}; the generated _id and timestamps are left out.
\* (variant: the two bounds are stored the wrong way round)
DocSwapped(u, tf, tt) == [userId |-> u, timeFrom |-> tt, timeTo |-> tf]
Doc(u, tf, tt) == [userId |-> u, timeFrom |-> tf, timeTo |-> tt]

\* FocusTimeModel.create(doc)
Create(recs, doc) == recs (+) SetToBag({doc})

\* (variant: the filter leaves out userId)
MatchAnyUser(recs, u, from, to) ==
  LET hit == {r \in BagToSet(recs) : r.timeFrom >= from /\ r.timeFrom <= to}
  IN  [r \in hit |-> recs[r]]

\* find({timeFrom: {$gte, $lte}, userId}) / aggregate().match(...)
Match(recs, u, from, to) ==
  LET hit == {r \in BagToSet(recs) :
                /\ r.userId = u
                /\ r.timeFrom >= from
                /\ r.timeFrom <= to}
  IN  [r \in hit |-> recs[r]]

SeqBag(s) ==
  LET rng == {s[i] : i \in DOMAIN s}
  IN  [r \in rng |-> Cardinality({i \in DOMAIN s : s[i] = r})]

\* .sort({timeFrom: 1}): every order of the matched documents that is
\* ascending by timeFrom (the store leaves the order of ties open).
SortByTimeFrom(bag) ==
  LET n == BagCardinality(bag)
  IN  {s \in [1..n -> BagToSet(bag)] :
         /\ SeqBag(s) = bag
         /\ \A i \in 1..(n - 1) : s[i].timeFrom <= s[i + 1].timeFrom}

KeyLess(a, b) ==
  \/ a[1] < b[1]
  \/ a[1] = b[1] /\ a[2] < b[2]
  \/ a[1] = b[1] /\ a[2] = b[2] /\ a[3] < b[3]

RECURSIVE SortKeys(_)
\* .sort({_id: 1}) over distinct array keys: element-wise comparison.
SortKeys(S) ==
  IF S = {} THEN <<>>
  ELSE LET m == CHOOSE k \in S : \A o \in S \ {k} : KeyLess(k, o)
       IN  <<m>> \o SortKeys(S \ {m})

\* .project({year, month, day}).group({_id: [year, month, day],
\* count: {$sum: 1}}).sort({_id: 1})
GroupByDay(bag) ==
  LET keys == {DayKey(r.timeFrom) : r \in BagToSet(bag)}
      count(k) == BagCardinality(
                    [r \in {x \in BagToSet(bag) : DayKey(x.timeFrom) = k}
                       |-> bag[r]])
      order == SortKeys(keys)
  IN  [i \in 1..Len(order) |-> [_id |-> order[i], count |-> count(order[i])]]

\* ------------------------------------------------- FocusTimeController
Reply(status, body) == [status |-> status, body |-> body]
Outcome(recs, resp) == [records |-> recs, response |-> resp]

\* (variant: the record is created before the order of the bounds is checked)
storeBeforeCheck(recs, user, body) ==
  LET focusTime == SafeParse(<<"timeFrom", "timeTo">>, body)
      timeFrom == focusTime.data.timeFrom
      timeTo == focusTime.data.timeTo
      createdFocusTime == Doc(user, timeFrom, timeTo)
  IN  IF ~focusTime.success
        THEN Outcome(recs,
               Reply(422, [message |-> ErrorMessageValidation(focusTime.issues)]))
      ELSE IF IsBefore(timeTo, timeFrom)
        THEN Outcome(Create(recs, createdFocusTime),
               Reply(400, [message |-> "timeFrom always has to be before timeTo"]))
      ELSE Outcome(Create(recs, createdFocusTime), Reply(201, createdFocusTime))

\* POST /focus-time
store(recs, user, body) ==
  LET focusTime == SafeParse(<<"timeFrom", "timeTo">>, body)
      timeFrom == focusTime.data.timeFrom
      timeTo == focusTime.data.timeTo
      createdFocusTime == Doc(user, timeFrom, timeTo)
  IN  IF ~focusTime.success
        THEN Outcome(recs,
               Reply(422, [message |-> ErrorMessageValidation(focusTime.issues)]))
      ELSE IF IsBefore(timeTo, timeFrom)
        THEN Outcome(recs,
               Reply(400, [message |-> "timeFrom always has to be before timeTo"]))
      ELSE Outcome(Create(recs, createdFocusTime), Reply(201, createdFocusTime))

\* GET /focus-time: the possible responses (one per admissible tie order).
index(recs, user, query) ==
  LET validated == SafeParse(<<"date">>, query)
      startDate == StartOfDay(validated.data.date)
      endDate == EndOfDay(validated.data.date)
      focusTimes == SortByTimeFrom(Match(recs, user, startDate, endDate))
  IN  IF ~validated.success
        THEN {Reply(422, [message |-> ErrorMessageValidation(validated.issues)])}
      ELSE {Reply(200, s) : s \in focusTimes}

\* GET /focus-time/metrics
metricsByMonth(recs, user, query) ==
  LET validated == SafeParse(<<"date">>, query)
      startDate == StartOfMonth(validated.data.date)
      endDate == EndOfMonth(validated.data.date)
      focusTimesMetrics == GroupByDay(Match(recs, user, startDate, endDate))
  IN  IF ~validated.success
        THEN Reply(422, [message |-> ErrorMessageValidation(validated.issues)])
      ELSE Reply(200, focusTimesMetrics)

\* ------------------------------------------------------ AuthController
\* The provider (GitHub): which user an authorization code or an access
\* token stands for; "nobody" for a code or token it does not accept.
Codes == {"code-u1", "code-u2", "stale"}
CodeUser(code) ==
  CASE code = "code-u1" -> "u1" [] code = "code-u2" -> "u2" [] OTHER -> "nobody"

TokenUrl == [scheme |-> "htpps", host |-> "github.com",
             path |-> "/login/oauth/access_token"]
UserUrl == [scheme |-> "https", host |-> "api.github.com", path |-> "/user"]

\* The protocols the HTTP client's adapter knows.
SupportedProtocols == {"http", "https"}

\* What can happen to one HTTP call: the provider answers (ok), it answers
\* with an error status (http), or no answer arrives (down).  adapter says
\* how the client build reports a URL whose protocol it does not know: as
\* an error of its own kind (axios) or as a TypeError of the runtime.
NetOutcomes == {"ok", "http", "down"}
AdapterKinds == {"axios", "runtime"}
Worlds == [exchange : NetOutcomes, profile : NetOutcomes,
           sign : BOOLEAN, adapter : AdapterKinds]

\* What err.response?.data is when the error carries no response.
NoPayload == [undefined |-> TRUE]

Ok(data) == [ok |-> TRUE, data |-> data]
\* A thrown error: isAxios is isAxiosError(err), hasResponse tells whether
\* err.response exists, data is err.response.data.
Thrown(isAxios, hasResponse, data) ==
  [ok |-> FALSE, isAxios |-> isAxios, hasResponse |-> hasResponse, data |-> data]

\* axios.post / axios.get: answer is what the provider would send back.
AxiosRequest(url, net, adapter, answer) ==
  IF url.scheme \notin SupportedProtocols
    THEN Thrown(adapter = "axios", FALSE, NoPayload)
  ELSE IF net = "down" THEN Thrown(TRUE, FALSE, NoPayload)
  ELSE IF net = "http" THEN Thrown(TRUE, TRUE, [message |-> "Server Error"])
  ELSE answer

\* The provider's token endpoint: an unknown code is answered with status
\* 200 and an error body that carries no access_token.
ProviderExchange(code) ==
  IF CodeUser(code) # "nobody"
    THEN Ok([access_token |-> CodeUser(code)])
  ELSE Ok([access_token |-> "undefined"])

\* The provider's profile endpoint under "Authorization: Bearer <token>".
ProviderUser(accessToken) ==
  IF accessToken \in Users
    THEN Ok([node_id |-> accessToken, avatar_url |-> "avatar", name |-> "name"])
  ELSE Thrown(TRUE, TRUE, [message |-> "Bad credentials"])

\* A session token: kind is "jwt" for a token signed with the secret.
Jwt(id, expired) == [kind |-> "jwt", id |-> id, expired |-> expired]
\* jwt.sign({id}, secret, {expiresIn}): throws when the options are invalid.
JwtSign(id, signOk) ==
  IF signOk THEN Ok(Jwt(id, FALSE)) ELSE Thrown(FALSE, FALSE, NoPayload)

AuthResult(resp, started) == [response |-> resp, calls |-> started]

\* The catch block of authCallback.
AuthCatch(err) ==
  IF err.isAxios
    THEN Reply(400, IF err.hasResponse THEN err.data ELSE NoPayload)
  ELSE Reply(500, [message |-> "There something wrong."])

\* GET /auth/callback: calls lists the external calls the handler started.
authCallback(code, w) ==
  LET accessTokenResult ==
        AxiosRequest(TokenUrl, w.exchange, w.adapter, ProviderExchange(code))
      userDataResult ==
        AxiosRequest(UserUrl, w.profile, w.adapter,
                     ProviderUser(accessTokenResult.data.access_token))
      id == userDataResult.data.node_id
      token == JwtSign(id, w.sign)
  IN  IF ~accessTokenResult.ok
        THEN AuthResult(AuthCatch(accessTokenResult), <<"exchange">>)
      ELSE IF ~userDataResult.ok
        THEN AuthResult(AuthCatch(userDataResult), <<"exchange", "profile">>)
      ELSE IF ~token.ok
        THEN AuthResult(AuthCatch(token), <<"exchange", "profile", "sign">>)
      ELSE AuthResult(
             Reply(200, [id |-> id, avatarUrl |-> userDataResult.data.avatar_url,
                         name |-> userDataResult.data.name, token |-> token.data]),
             <<"exchange", "profile", "sign">>)

\* GET /auth
auth == Reply(200, [redirectUrl |-> "https://github.com/login/oauth/authorize"])

\* --------------------------------------------------------------- routes
Route(method, path, h) == [kind |-> "route", method |-> method, path |-> path, handler |-> h]
Use(h) == [kind |-> "use", method |-> "*", path |-> "*", handler |-> h]

\* (variant: the gate is registered after the habits routes)
routesGateLate == <<
  Route("GET", "/", "root"),
  Route("GET", "/auth", "authController.auth"),
  Route("GET", "/auth/callback", "authController.authCallback"),
  Route("POST", "/habits", "habitsController.store"),
  Route("GET", "/habits", "habitsController.index"),
  Route("GET", "/habits/:id/metrics", "habitsController.metrics"),
  Route("DELETE", "/habits/:id", "habitsController.delete"),
  Route("PATCH", "/habits/:id/toggle", "habitsController.toggle"),
  Use("authMiddleware"),
  Route("POST", "/focus-time", "focusTimeController.store"),
  Route("GET", "/focus-time", "focusTimeController.index"),
  Route("GET", "/focus-time/metrics", "focusTimeController.metricsByMonth") >>

\* routes.get / routes.use / ..., in registration order.
routes == <<
  Route("GET", "/", "root"),
  Route("GET", "/auth", "authController.auth"),
  Route("GET", "/auth/callback", "authController.authCallback"),
  Use("authMiddleware"),
  Route("POST", "/habits", "habitsController.store"),
  Route("GET", "/habits", "habitsController.index"),
  Route("GET", "/habits/:id/metrics", "habitsController.metrics"),
  Route("DELETE", "/habits/:id", "habitsController.delete"),
  Route("PATCH", "/habits/:id/toggle", "habitsController.toggle"),
  Route("POST", "/focus-time", "focusTimeController.store"),
  Route("GET", "/focus-time", "focusTimeController.index"),
  Route("GET", "/focus-time/metrics", "focusTimeController.metricsByMonth") >>

\* The tokens a request may carry: none, a string that is no token of this
\* server, or a signed token for a user, expired or not.
NoToken == [kind |-> "missing", id |-> "nobody", expired |-> FALSE]
BadToken == [kind |-> "invalid", id |-> "u1", expired |-> FALSE]
Tokens == {NoToken, BadToken, Jwt("u1", TRUE)} \cup {Jwt(u, FALSE) : u \in Users}

\* verify(token) of the access-control gate.
Verify(token) == token.kind = "jwt" /\ ~token.expired

NoUser == "undefined"

RECURSIVE Walk(_, _, _, _)
\* Express walks the stack in registration order: a route that matches
\* handles the request; the gate either rejects it or attaches
\* request.user and passes it on.
Walk(stack, i, req, user) ==
  IF i > Len(stack) THEN [handler |-> "notFound", user |-> user]
  ELSE IF stack[i].kind = "use"
    THEN IF Verify(req.token)
           THEN Walk(stack, i + 1, req, req.token.id)
         ELSE [handler |-> "authMiddleware.reject", user |-> user]
  ELSE IF stack[i].method = req.method /\ stack[i].path = req.path
    THEN [handler |-> stack[i].handler, user |-> user]
  ELSE Walk(stack, i + 1, req, user)

Dispatch(req) == Walk(routes, 1, req, NoUser)

\* ------------------------------------------------------------- requests
Req(method, path, token, input) ==
  [method |-> method, path |-> path, token |-> token, input |-> input]
NoInput == [none |-> Raw("missing", 0)]
NoRequest == Req("none", "none", NoToken, NoInput)
NoReply == Reply(0, "none")
NoWorld == [exchange |-> "ok", profile |-> "ok", sign |-> TRUE, adapter |-> "axios"]

Deltas == {-1, 0, 1}
StoreBodies ==
  {[timeFrom |-> Iso(tf), timeTo |-> Iso(tf + d)] : tf \in Times, d \in Deltas}
  \cup {[timeFrom |-> BadRaw, timeTo |-> Iso(0)],
        [timeFrom |-> Iso(0), timeTo |-> MissingRaw],
        [timeFrom |-> BadRaw, timeTo |-> BadRaw],
        [timeFrom |-> NullRaw, timeTo |-> Iso(1)]}
DateQueries ==
  {[date |-> Iso(t)] : t \in Times}
  \cup {[date |-> Raw("day", n)] : n \in 0..(MaxTime \div DayLen)}
  \cup {[date |-> BadRaw], [date |-> MissingRaw]}

HabitsEndpoints ==
  {<<"POST", "/habits">>, <<"GET", "/habits">>, <<"GET", "/habits/:id/metrics">>,
   <<"DELETE", "/habits/:id">>, <<"PATCH", "/habits/:id/toggle">>}
FocusEndpoints ==
  {<<"POST", "/focus-time">>, <<"GET", "/focus-time">>, <<"GET", "/focus-time/metrics">>}
PublicEndpoints == {<<"GET", "/">>, <<"GET", "/auth">>, <<"GET", "/auth/callback">>}
Endpoints ==
  PublicEndpoints \cup HabitsEndpoints \cup FocusEndpoints \cup {<<"GET", "/unknown">>}

\* What every handler but authCallback leaves behind.  The server takes
\* the next request once the response of the last one is sent (Complete).
Served(req, h, resp) ==
  /\ request' = req
  /\ handler' = h
  /\ response' = resp
  /\ world' = NoWorld
  /\ calls' = <<>>
  /\ UNCHANGED tz

\* The server is waiting for a request.
Idle == handler = "none"

Init ==
  /\ tz \in TzOffsets
  /\ records = EmptyBag
  /\ recordsB = [u \in Users |-> EmptyBag]
  /\ request = NoRequest
  /\ handler = "none"
  /\ response = NoReply
  /\ world = NoWorld
  /\ calls = <<>>

\* The response is sent; the request is over.
Complete ==
  /\ handler # "none"
  /\ request' = NoRequest
  /\ handler' = "none"
  /\ response' = NoReply
  /\ world' = NoWorld
  /\ calls' = <<>>
  /\ UNCHANGED <<tz, records, recordsB>>

\* GET /
Root ==
  /\ Idle
  /\ \E token \in Tokens :
      LET req == Req("GET", "/", token, NoInput)
          d == Dispatch(req)
      IN  /\ d.handler = "root"
          /\ Served(req, d.handler, Reply(200, [name |-> "name", version |-> "version"]))
          /\ UNCHANGED <<records, recordsB>>

\* GET /auth
Auth ==
  /\ Idle
  /\ \E token \in Tokens :
      LET req == Req("GET", "/auth", token, NoInput)
          d == Dispatch(req)
      IN  /\ d.handler = "authController.auth"
          /\ Served(req, d.handler, auth)
          /\ UNCHANGED <<records, recordsB>>

\* GET /auth/callback?code=
AuthCallback ==
  /\ Idle
  /\ \E token \in Tokens, code \in Codes, w \in Worlds :
      LET req == Req("GET", "/auth/callback", token, [code |-> code])
          d == Dispatch(req)
          r == authCallback(code, w)
      IN  /\ d.handler = "authController.authCallback"
          /\ request' = req
          /\ handler' = d.handler
          /\ response' = r.response
          /\ calls' = r.calls
          /\ world' = w
          /\ UNCHANGED <<tz, records, recordsB>>

\* The gate turns the request away: no handler behind it runs.
GateReject ==
  /\ Idle
  /\ \E ep \in Endpoints, token \in Tokens :
      LET req == Req(ep[1], ep[2], token, NoInput)
          d == Dispatch(req)
      IN  /\ d.handler = "authMiddleware.reject"
          /\ Served(req, d.handler, Reply(401, "rejected"))
          /\ UNCHANGED <<records, recordsB>>

\* No route matches.
NotFound ==
  /\ Idle
  /\ \E ep \in Endpoints, token \in Tokens :
      LET req == Req(ep[1], ep[2], token, NoInput)
          d == Dispatch(req)
      IN  /\ d.handler = "notFound"
          /\ Served(req, d.handler, Reply(404, "not found"))
          /\ UNCHANGED <<records, recordsB>>

HabitsHandlers ==
  {"habitsController.store", "habitsController.index", "habitsController.metrics",
   "habitsController.delete", "habitsController.toggle"}

\* Any /habits route: the habits controller is outside this model.
Habits ==
  /\ Idle
  /\ \E ep \in HabitsEndpoints, token \in Tokens :
      LET req == Req(ep[1], ep[2], token, NoInput)
          d == Dispatch(req)
      IN  /\ d.handler \in HabitsHandlers
          /\ Served(req, d.handler, Reply(0, "habits"))
          /\ UNCHANGED <<records, recordsB>>

\* POST /focus-time, while the collection holds at most cap documents.
\* recordsB[u] follows the run in which only u's requests are made.
StoreUpTo(cap) ==
  /\ Idle
  /\ \E token \in Tokens, body \in StoreBodies :
      LET req == Req("POST", "/focus-time", token, body)
          d == Dispatch(req)
          r == store(records, d.user, body)
      IN  /\ d.handler = "focusTimeController.store"
          /\ BagCardinality(r.records) <= cap
          /\ records' = r.records
          /\ recordsB' = [u \in Users |->
                            IF u = d.user
                              THEN store(recordsB[u], u, body).records
                            ELSE recordsB[u]]
          /\ Served(req, d.handler, r.response)

Store == StoreUpTo(MaxRecords)

\* GET /focus-time?date=
Index ==
  /\ Idle
  /\ \E token \in Tokens, query \in DateQueries :
      LET req == Req("GET", "/focus-time", token, query)
          d == Dispatch(req)
      IN  /\ d.handler = "focusTimeController.index"
          /\ \E resp \in index(records, d.user, query) :
               Served(req, d.handler, resp)
          /\ UNCHANGED <<records, recordsB>>

\* GET /focus-time/metrics?date=
MetricsByMonth ==
  /\ Idle
  /\ \E token \in Tokens, query \in DateQueries :
      LET req == Req("GET", "/focus-time/metrics", token, query)
          d == Dispatch(req)
      IN  /\ d.handler = "focusTimeController.metricsByMonth"
          /\ Served(req, d.handler, metricsByMonth(records, d.user, query))
          /\ UNCHANGED <<records, recordsB>>

\* The focus-time routes behind the gate.
Next ==
  \/ Store
  \/ Index
  \/ MetricsByMonth
  \/ GateReject
  \/ Complete

Spec == Init /\ [][Next]_vars

\* The whole router.
NextRoutes ==
  \/ Root
  \/ Auth
  \/ AuthCallback
  \/ GateReject
  \/ NotFound
  \/ Habits
  \/ StoreUpTo(MaxRoutesRecords)
  \/ Index
  \/ MetricsByMonth
  \/ Complete

SpecRoutes == Init /\ [][NextRoutes]_vars

\* ================================================================ claims
StoreHandler == "focusTimeController.store"
IndexHandler == "focusTimeController.index"
MetricsHandler == "focusTimeController.metricsByMonth"
CallbackHandler == "authController.authCallback"

\* The two bounds of a store request when both are dates (well-typed).
WellTyped(req) ==
  /\ req.input.timeFrom.k \in {"iso", "day", "null"}
  /\ req.input.timeTo.k \in {"iso", "day", "null"}
Instant(raw) ==
  CASE raw.k = "iso" -> raw.v [] raw.k = "day" -> raw.v * DayLen [] OTHER -> 0
OrderMessage == [message |-> "timeFrom always has to be before timeTo"]
One(u, tf, tt) == SetToBag({[userId |-> u, timeFrom |-> tf, timeTo |-> tt]})

\* C1: a well-typed store request is answered 400 with the order message,
\* and persists nothing, exactly when timeTo is strictly before timeFrom;
\* with timeTo = timeFrom it is answered 201 and the record is persisted.
C1_RejectIffStrictlyBefore ==
  [][(handler' = StoreHandler /\ WellTyped(request')) =>
       LET tf == Instant(request'.input.timeFrom)
           tt == Instant(request'.input.timeTo)
       IN  /\ (response'.status = 400) <=> (tt < tf)
           /\ tt < tf => response'.body = OrderMessage /\ records' = records
           /\ tt = tf => /\ response'.status = 201
                         /\ records' = records (+) One(request'.token.id, tf, tt)]_vars

C1_Witness ==
  /\ handler = StoreHandler
  /\ WellTyped(request)
  /\ Instant(request.input.timeTo) = Instant(request.input.timeFrom)
  /\ response.status = 201
  /\ BagCardinality(records) = 2

\* C2: every stored record has timeFrom strictly before timeTo.
C2_StoredStrictlyOrdered ==
  \A r \in BagToSet(records) : r.timeFrom < r.timeTo

\* C3: a well-typed store request with timeFrom < timeTo by user u is
\* answered 201 with the record (u, timeFrom, timeTo), and exactly that one
\* record is added to the collection.
C3_StoreAddsExactlyTheRecord ==
  [][(/\ handler' = StoreHandler
      /\ WellTyped(request')
      /\ Instant(request'.input.timeFrom) < Instant(request'.input.timeTo)) =>
       LET tf == Instant(request'.input.timeFrom)
           tt == Instant(request'.input.timeTo)
           u == request'.token.id
       IN  /\ response' = [status |-> 201,
                           body |-> [userId |-> u, timeFrom |-> tf, timeTo |-> tt]]
           /\ records' = records (+) One(u, tf, tt)
           /\ BagCardinality(records') = BagCardinality(records) + 1]_vars

C3_Witness ==
  /\ handler = StoreHandler
  /\ response.status = 201
  /\ response.body.timeFrom < response.body.timeTo
  /\ BagCardinality(records) = 2
  /\ \E r \in BagToSet(records) : records[r] = 2

\* The server's local calendar.
LocalDay(t) == (t + tz) \div DayLen
LocalClock(t) == (t + tz) % DayLen
Ascending(s) == \A i \in 1..(Len(s) - 1) : s[i].timeFrom <= s[i + 1].timeFrom
OwnedOn(u, day) ==
  LET S == {r \in BagToSet(records) : r.userId = u /\ LocalDay(r.timeFrom) = day}
  IN  [r \in S |-> records[r]]

MonthAt(o, t) == (t + o) \div MonthLen
KeyAt(o, t) ==
  <<1970 + ((t + o) \div (MonthLen * MonthsPerYear)),
    (((t + o) \div MonthLen) % MonthsPerYear) + 1,
    (((t + o) \div DayLen) % DaysPerMonth) + 1>>
OwnedInMonth(o, u, d) ==
  {r \in BagToSet(records) : r.userId = u /\ MonthAt(o, r.timeFrom) = MonthAt(o, d)}
CountAt(o, u, d, k) ==
  LET S == {r \in OwnedInMonth(o, u, d) : KeyAt(o, r.timeFrom) = k}
  IN  BagCardinality([r \in S |-> records[r]])
\* The claim's buckets, read in the calendar at offset o.
BucketsAt(o, u, d, body) ==
  /\ {body[i]._id : i \in DOMAIN body} =
       {KeyAt(o, r.timeFrom) : r \in OwnedInMonth(o, u, d)}
  /\ \A i \in DOMAIN body :
       body[i].count = CountAt(o, u, d, body[i]._id) /\ body[i].count > 0
  /\ \A i \in 1..(Len(body) - 1) : KeyLess(body[i]._id, body[i + 1]._id)

\* C5: for a valid date d and user u, metricsByMonth returns one bucket per
\* calendar day of the month containing d on which u has a record, keyed
\* by that day, counting u's records of that day, ascending by key - in
\* the server's calendar or, failing that, in UTC.
C5_BucketsOfTheMonth ==
  (handler = MetricsHandler /\ request.input.date.k \in {"iso", "day"}) =>
    /\ response.status = 200
    /\ \/ BucketsAt(tz, request.token.id, Instant(request.input.date), response.body)
       \/ BucketsAt(0, request.token.id, Instant(request.input.date), response.body)

Verified(token) == token.kind = "jwt" /\ token.expired = FALSE
GatedHandlers ==
  {"habitsController.store", "habitsController.index", "habitsController.metrics",
   "habitsController.delete", "habitsController.toggle",
   StoreHandler, IndexHandler, MetricsHandler}
OpenHandlers == {"root", "authController.auth", CallbackHandler}

\* C6: no handler of a /habits or /focus-time route begins executing for a
\* request whose token is missing, invalid or expired; without a verified
\* token only GET /, GET /auth and GET /auth/callback run a handler.
C6_GateBeforeBusinessLogic ==
  /\ handler \in GatedHandlers => Verified(request.token)
  /\ (handler \notin {"none", "authMiddleware.reject", "notFound"}
        /\ ~Verified(request.token)) =>
       /\ handler \in OpenHandlers
       /\ <<request.method, request.path>> \in
            {<<"GET", "/">>, <<"GET", "/auth">>, <<"GET", "/auth/callback">>}

\* An expired token on POST /focus-time is turned away at the gate.
C6_Witness ==
  /\ handler = "authMiddleware.reject"
  /\ request.path = "/focus-time"
  /\ request.method = "POST"
  /\ request.token.kind = "jwt"
  /\ request.token.expired

ProviderAccepts(code) == code \in {"code-u1", "code-u2"}

\* C7: when the provider accepts the code, the profile fetch succeeds and
\* the session token can be signed, authCallback has made the token
\* exchange, then the profile fetch, then issued the token, and answers 200
\* with {id, avatarUrl, name, token}, the token embedding the provider's id.
C7_LoginCompletes ==
  (/\ handler = CallbackHandler
   /\ ProviderAccepts(request.input.code)
   /\ world.exchange = "ok" /\ world.profile = "ok" /\ world.sign) =>
     /\ response.status = 200
     /\ calls = <<"exchange", "profile", "sign">>
     /\ response.body.token.id = response.body.id

\* C8: authCallback ends in exactly one of 200, 400, 500; a 400 carries
\* the provider's error payload and is given only for a failure the
\* provider reported; any other failure is answered 500 with the generic
\* message; a session token is issued only with a 200.
C8_ErrorMapping ==
  handler = CallbackHandler =>
    /\ response.status \in {200, 400, 500}
    /\ response.status = 400 => response.body # [undefined |-> TRUE]
    /\ response.status = 500 => response.body = [message |-> "There something wrong."]
    /\ response.status # 200 => ~(world.sign /\ calls = <<"exchange", "profile", "sign">>)

Copies(bag, r) == IF r \in BagToSet(bag) THEN bag[r] ELSE 0

\* C9: the collection changes only by a store request answered 201, which
\* adds exactly one record; no record is ever modified or removed; index,
\* metricsByMonth and a store request answered 422 or 400 leave it as it was.
C9_OnlyStoreAddsOne ==
  [][/\ \A r \in BagToSet(records) : Copies(records', r) >= Copies(records, r)
     /\ records' # records =>
          /\ handler' = StoreHandler
          /\ response'.status = 201
          /\ BagCardinality(records') = BagCardinality(records) + 1
     /\ (handler' \in {IndexHandler, MetricsHandler}
           \/ (handler' = StoreHandler /\ response'.status \in {400, 422})) =>
          records' = records]_vars

\* A store request was refused while the collection already held a record.
C9_Witness ==
  /\ handler = StoreHandler
  /\ response.status = 400
  /\ BagCardinality(records) = 1

\* C10: what index and metricsByMonth can answer to u is the same in the
\* run at hand and in the run in which only u made store requests (so it
\* is the same in any two runs that differ in the other users' store
\* requests); no record of another user is returned to u or counted for u.
C10_OwnerScoping ==
  LET u == request.token.id
      q == request.input
  IN  /\ handler = IndexHandler =>
           /\ index(records, u, q) = index(recordsB[u], u, q)
           /\ response \in index(recordsB[u], u, q)
           /\ response.status = 200 =>
                \A i \in DOMAIN response.body : response.body[i].userId = u
      /\ handler = MetricsHandler =>
           /\ response = metricsByMonth(recordsB[u], u, q)
           /\ response.status = 200 =>
                \A i \in DOMAIN response.body :
                  response.body[i].count <=
                    BagCardinality(
                      [r \in {x \in BagToSet(records) :
                                /\ x.userId = u
                                /\ KeyAt(0, x.timeFrom) = response.body[i]._id}
                         |-> records[r]])

\* u is answered its own record while another user has one at the same
\* instant.
C10_Witness ==
  /\ handler = IndexHandler
  /\ response.status = 200
  /\ Len(response.body) = 1
  /\ \E r \in BagToSet(records) :
       /\ r.userId # request.token.id
       /\ r.timeFrom = response.body[1].timeFrom

====
